---- MODULE Spec2Model ----
(***************************************************************************)
(* Model of the Batphone audio fingerprinter                               *)
(* (Fingerprinter/Classes/Fingerprinter.cpp, Spectrogram.h).               *)
(*                                                                         *)
(* Threads: the real-time render callback (producer), a consumer calling   *)
(* getFingerprint, a control thread calling startRecording/stopRecording,  *)
(* and the audio session delivering interruptions and route changes.       *)
(*                                                                         *)
(* Floats are integers; NaN and -infinity are two reserved codes whose     *)
(* arithmetic and comparisons follow IEEE 754.  The FFT is a black box:    *)
(* each analysed window yields a power spectrum drawn from SpectrumInputs. *)
(* The frame buffer holds, per slot, the stream position of its sample.    *)
(*                                                                         *)
(* Specifications: Spec (all threads), SpecStream and SpecValid (the       *)
(* callback over a run that shifts the frame buffer, with and without NaN  *)
(* spectra), SpecLockFail (pthread_mutex_lock may fail), SpecSummary       *)
(* (getSummary on windows of up to MaxHistory values) and SpecLive (the    *)
(* threads at the mutex under fair scheduling).                            *)
(***************************************************************************)
EXTENDS Integers, Sequences, FiniteSets

\* ---------------------------------------------------------------- sizes
\* Scaled-down values of Fingerprinter::specRes, stepSize, fbLen,
\* accumulationNum, historyCount and fpLength.
specRes == 2
stepSize == 1
\* 0.5*sampleRate is 21.5 window lengths; kept at a multiple of the window
\* length that leaves the shift the room it has in the source
fbLen == 5 * specRes
accumulationNum == 2
historyCount == 2
fpLength == 2
\* largest finite power value a window's spectrum holds in one bin
MaxPower == 1
\* length of the runs explored: render callbacks, getFingerprint calls,
\* startRecording/stopRecording calls, session events (interruptions and
\* route changes)
MaxCallbacks == 3
MaxSnapshots == 1
MaxControlCalls == 3
MaxSessionEvents == 1
\* render callbacks in the runs that follow the stream through a shift of
\* the frame buffer
MaxStreamCallbacks == 6
\* longest history window getSummary is applied to on its own
MaxHistory == 22

\* ---------------------------------------------------------------- floats
NaN == 99
NegInf == -99

IsNaN(x) == x = NaN
\* IEEE comparison: every comparison with a NaN is false
Leq(a, b) == ~IsNaN(a) /\ ~IsNaN(b) /\ a <= b
Geq(a, b) == ~IsNaN(a) /\ ~IsNaN(b) /\ a >= b
Lt(a, b) == ~IsNaN(a) /\ ~IsNaN(b) /\ a < b

\* float addition (vDSP_vadd, one element)
FAdd(a, b) ==
    IF IsNaN(a) \/ IsNaN(b) THEN NaN
    ELSE IF a = NegInf \/ b = NegInf THEN NegInf
    ELSE a + b

RECURSIVE Pow(_, _)
Pow(b, e) == IF e = 0 THEN 1 ELSE b * Pow(b, e - 1)

\* floor(10 * log10(s / ref)) for integers s, ref > 0
FloorDb(s, ref) ==
    IF s >= ref
    THEN LET up == {d \in 0..4 : Pow(10, d) * Pow(ref, 10) <= Pow(s, 10)}
         IN  CHOOSE d \in up : \A e \in up : e <= d
    ELSE LET dn == {d \in 1..6 : Pow(ref, 10) <= Pow(s, 10) * Pow(10, d)}
         IN  0 - (CHOOSE d \in dn : \A e \in dn : d <= e)

\* vDSP_vdbcon, one element, power convention: 10*log10(x/reference).
\* log of a negative number (or of -inf) is NaN, log of 0 is -inf.
DbCon(x, ref) ==
    IF IsNaN(x) \/ x = NegInf \/ x < 0 THEN NaN
    ELSE IF x = 0 THEN NegInf
    ELSE FloorDb(x, ref)

Bins == 1..fpLength
ZeroVec == [i \in Bins |-> 0]
\* what the consumer's buffer holds before a call (never a dB value)
Sentinel == 77
SentinelVec == [i \in Bins |-> Sentinel]

\* power spectra a window can yield: the same finite power in every bin,
\* or one bin NaN (bin 1 is the one the validity test looks at)
SpectrumInputs ==
    {[i \in Bins |-> p] : p \in 0..MaxPower}
    \cup {[i \in Bins |-> IF i = k THEN NaN ELSE MaxPower] : k \in Bins}

\* ---------------------------------------------------------------- history
\* faulty variant: a window that keeps growing instead of evicting
SlidingWindowPushNoEvict(w, v) == Append(w, v)

\* SlidingWindow: bounded FIFO of depth historyCount, oldest value first
SlidingWindowPush(w, v) ==
    IF Len(w) >= historyCount THEN Append(Tail(w), v) ELSE Append(w, v)

\* Spectrogram::update: push s[i] into the window of bin i
SpectrogramUpdate(h, s) == [i \in Bins |-> SlidingWindowPush(h[i], s[i])]

\* faulty variant: the rank of the 95th percentile
Rank95(count) == (95 * count + 99) \div 100

\* nearest rank of the 5th percentile among count values: ceil(0.05*count)
Rank(count) == (5 * count + 99) \div 100

\* value at 1-indexed rank k of w sorted ascending (w holds no NaN)
NearestRank(w, k) ==
    CHOOSE v \in {w[i] : i \in 1..Len(w)} :
        /\ Cardinality({i \in 1..Len(w) : Lt(w[i], v)}) < k
        /\ k <= Cardinality({i \in 1..Len(w) : Leq(w[i], v)})

\* Spectrogram::getSummary for one bin.  A sort by "<" puts a NaN anywhere,
\* so with a NaN in the window any of its values can land on the rank.
SummaryChoices(w) ==
    IF \E i \in 1..Len(w) : IsNaN(w[i])
    THEN {w[i] : i \in 1..Len(w)}
    ELSE {NearestRank(w, Rank(Len(w)))}

\* ---------------------------------------------------------------- frames
\* what a slot of the frame buffer holds that is no sample of the stream:
\* new float[fbLen] is not initialised, and so is what lies outside it
Garbage == -1
Slots == 0..(fbLen - 1)
NewBuffer == [i \in Slots |-> Garbage]

\* ---------------------------------------------------------------- state
VARIABLES
    unitIsRunning,  \* Fingerprinter::unitIsRunning, the running flag
    rio,            \* the remote I/O unit: "stopped", "running" or "invalid"
    interrupted,    \* the audio session is inside an interruption
    lock,           \* fingerprint mutex: "free", "producer" or "consumer"
    lockFailed,     \* the threads whose last pthread_mutex_lock returned an
                    \* error
    fbIndex,        \* CallbackData::fbIndex
    startIndex,     \* CallbackData::startIndex
    acc,            \* CallbackData::acc
    accCount,       \* CallbackData::accCount
    frameBuffer,    \* CallbackData::frameBuffer: per slot, the position in
                    \* the stream of the sample it holds (Garbage: none)
    nAppended,      \* history: samples appended to this CallbackData
    nWindows,       \* history: windows analysed so far
    cbPc,           \* where the render callback is
    sumIdx,         \* bin getSummary writes next
    spectrogram,    \* per-bin sliding windows
    fingerprint,    \* Fingerprinter::fingerprint (shared with CallbackData)
    snapPc,         \* where getFingerprint is
    snapIdx,        \* element memcpy copies next
    outBuf,         \* the consumer's buffer
    snapRet,        \* "none", "true" or "false"
    ctlPc,          \* where startRecording/stopRecording is
    ctlOp,          \* the control call made last: "none", "start", "stop"
    ctlRet,         \* how it ended: "none", "true", "false", "exception"
    stopped,        \* history: stopRecording returned, no successful start
                    \* since
    cycleDone,      \* history: a cycle ended in a history update since the
                    \* last successful start
    srcFailed,      \* history: the source failed while the flag was set, no
                    \* successful start since
    committed,      \* history: the fingerprint as of the last completed publish
    pushed,         \* history: every spectrum handed to Spectrogram::update
    fpStale,        \* history: that publish was made after stopRecording
                    \* returned, with no startRecording entered since
    snapSeen,       \* history: committed when getFingerprint took the lock
    snapStale,      \* history: such a publish preceded the getFingerprint
                    \* call and is what it copies out
    snapAfterFail,  \* history: getFingerprint was called after a source failure
    nCallbacks,     \* render callbacks so far
    nSnapshots,     \* getFingerprint calls so far
    nControl,       \* startRecording/stopRecording calls so far
    nSession        \* session events so far

cdVars == <<fbIndex, startIndex, acc, accCount, frameBuffer, nAppended,
            nWindows>>
pubVars == <<spectrogram, fingerprint, committed, fpStale, pushed>>
snapVars == <<snapPc, snapIdx, outBuf, snapRet, snapSeen, snapStale,
              snapAfterFail>>
ctlVars == <<ctlPc, ctlOp, ctlRet>>
cntVars == <<nCallbacks, nSnapshots, nControl, nSession>>
vars == <<unitIsRunning, rio, interrupted, lock, lockFailed, fbIndex,
          startIndex, acc, accCount, frameBuffer, nAppended, nWindows, cbPc,
          sumIdx, spectrogram, fingerprint, pushed, snapPc, snapIdx, outBuf,
          snapRet, ctlPc, ctlOp, ctlRet, stopped, cycleDone, srcFailed,
          committed, fpStale, snapSeen, snapStale, snapAfterFail, nCallbacks,
          nSnapshots, nControl, nSession>>

\* Fingerprinter::Fingerprinter: flag false, fingerprint all zero, and the
\* audio set-up either succeeded (unit created, not started) or failed.
Init ==
    /\ unitIsRunning = FALSE
    /\ rio \in {"stopped", "invalid"}
    /\ interrupted = FALSE
    /\ lock = "free"
    /\ lockFailed = {}
    /\ fbIndex = 0
    /\ startIndex = 0
    /\ acc = ZeroVec
    /\ accCount = 0
    /\ frameBuffer = NewBuffer
    /\ nAppended = 0
    /\ nWindows = 0
    /\ pushed = <<>>
    /\ cbPc = "idle"
    /\ sumIdx = 1
    /\ spectrogram = [i \in Bins |-> <<>>]
    /\ fingerprint = ZeroVec
    /\ snapPc = "idle"
    /\ snapIdx = 1
    /\ outBuf = SentinelVec
    /\ snapRet = "none"
    /\ ctlPc = "idle"
    /\ ctlOp = "none"
    /\ ctlRet = "none"
    /\ stopped = FALSE
    /\ cycleDone = FALSE
    /\ srcFailed = FALSE
    /\ committed = ZeroVec
    /\ fpStale = FALSE
    /\ snapSeen = ZeroVec
    /\ snapStale = FALSE
    /\ snapAfterFail = FALSE
    /\ nCallbacks = 0
    /\ nSnapshots = 0
    /\ nControl = 0
    /\ nSession = 0

\* ---------------------------------------------------------------- mutex
\* pthread_mutex_unlock by thread me: the mutex is released when me holds
\* it; unlocking a mutex the thread does not hold is undefined, the call
\* releases it all the same or leaves it alone
Unlocked(me) == IF lock = me THEN {"free"} ELSE {lock, "free"}

\* ---------------------------------------------------------------- producer
BatchSizes == 1..specRes
HalfLen == fbLen \div 2

\* if( cd->fbIndex >= cd->fbLen - inNumberFrames )
NeedsShift(n) == fbIndex >= fbLen - n

\* callback, AudioUnitRender fails: the catch block returns 1
callbackRenderError ==
    /\ cbPc = "idle"
    /\ rio = "running"
    /\ srcFailed' = (srcFailed \/ unitIsRunning)
    /\ UNCHANGED <<unitIsRunning, rio, interrupted, lock, lockFailed, cdVars,
                   cbPc, sumIdx, pubVars, snapVars, ctlVars, stopped,
                   cycleDone>>
    /\ UNCHANGED cntVars

\* memcpy( cd->frameBuffer + cd->fbLen/2, cd->frameBuffer,
\*         sizeof(float)*cd->fbLen/2 ): the destination is the right half,
\* the source the left half
ShiftBuffer(b) ==
    [i \in Slots |-> IF i >= HalfLen /\ i - HalfLen < HalfLen
                     THEN b[i - HalfLen] ELSE b[i]]

\* memcpy( cd->frameBuffer + cd->fbIndex, ..., n samples ): the samples at
\* stream positions first, first+1, ... go to slots at, at+1, ...
AppendSamples(b, at, n, first) ==
    [i \in Slots |-> IF at <= i /\ i < at + n THEN first + (i - at) ELSE b[i]]

\* callback, lines 96-128: shift when the buffer is nearly full, append the
\* n samples, return when less than one window is buffered; the callback is
\* entered at most max times in a run
callbackAppendWithin(n, max) ==
    /\ cbPc = "idle"
    /\ rio = "running"
    /\ nCallbacks < max
    /\ nCallbacks' = nCallbacks + 1
    /\ LET fb == IF NeedsShift(n) THEN fbIndex - HalfLen ELSE fbIndex
           st == IF NeedsShift(n) THEN startIndex - HalfLen ELSE startIndex
           bf == IF NeedsShift(n) THEN ShiftBuffer(frameBuffer)
                                  ELSE frameBuffer
       IN  /\ fbIndex' = fb + n
           /\ startIndex' = st
           /\ frameBuffer' = AppendSamples(bf, fb, n, nAppended)
           /\ nAppended' = nAppended + n
           /\ cbPc' = IF fb + n < specRes THEN "idle" ELSE "loop"
    /\ UNCHANGED <<unitIsRunning, rio, interrupted, lock, lockFailed, acc,
                   accCount, nWindows, sumIdx, pubVars, snapVars, ctlVars,
                   stopped, cycleDone, srcFailed>>
    /\ UNCHANGED <<nSnapshots, nControl, nSession>>

callbackAppend(n) == callbackAppendWithin(n, MaxCallbacks)

\* callback, lines 132-152: analyse the window at startIndex and add its
\* power spectrum to the accumulator; the for-increment runs unless the
\* accumulation count has been reached
\* the spectra come from the set S
callbackWindowOf(S) ==
    /\ cbPc = "loop"
    /\ startIndex <= fbIndex - specRes
    /\ \E s \in S :
          acc' = [i \in Bins |-> FAdd(s[i], acc[i])]
    /\ accCount' = accCount + 1
    /\ nWindows' = nWindows + 1
    /\ IF accCount + 1 >= accumulationNum
       THEN cbPc' = "lock" /\ startIndex' = startIndex
       ELSE cbPc' = "loop" /\ startIndex' = startIndex + stepSize
    /\ UNCHANGED <<unitIsRunning, rio, interrupted, lock, lockFailed, fbIndex,
                   frameBuffer, nAppended, sumIdx, pubVars, snapVars, ctlVars,
                   stopped, cycleDone, srcFailed>>
    /\ UNCHANGED cntVars

callbackWindow == callbackWindowOf(SpectrumInputs)

\* callback, line 132 false, line 180: no further window, return 0
callbackReturn ==
    /\ cbPc = "loop"
    /\ ~(startIndex <= fbIndex - specRes)
    /\ cbPc' = "idle"
    /\ UNCHANGED <<unitIsRunning, rio, interrupted, lock, lockFailed, cdVars,
                   sumIdx, pubVars, snapVars, ctlVars, stopped, cycleDone,
                   srcFailed>>
    /\ UNCHANGED cntVars

\* callback, lines 153-157: take the fingerprint lock, convert acc to dB
callbackLock ==
    /\ cbPc = "lock"
    /\ lock = "free"
    /\ lock' = "producer"
    /\ lockFailed' = lockFailed \ {"producer"}
    /\ acc' = [i \in Bins |-> DbCon(acc[i], accumulationNum)]
    /\ cbPc' = "locked"
    /\ UNCHANGED <<unitIsRunning, rio, interrupted, fbIndex, startIndex,
                   accCount, frameBuffer, nAppended, nWindows, sumIdx, pubVars,
                   snapVars, ctlVars, stopped, cycleDone, srcFailed>>
    /\ UNCHANGED cntVars

\* callback, lines 153-157: pthread_mutex_lock returns an error, which is
\* printed; the callback goes on as if it held the mutex
callbackLockFails ==
    /\ cbPc = "lock"
    /\ lockFailed' = lockFailed \cup {"producer"}
    /\ acc' = [i \in Bins |-> DbCon(acc[i], accumulationNum)]
    /\ cbPc' = "locked"
    /\ UNCHANGED <<unitIsRunning, rio, interrupted, lock, fbIndex, startIndex,
                   accCount, frameBuffer, nAppended, nWindows, sumIdx, pubVars,
                   snapVars, ctlVars, stopped, cycleDone, srcFailed>>
    /\ UNCHANGED cntVars

\* if( !(cd->acc[0] >= 0 || cd->acc[0] <= 0 ) )
SpectrumIsNaN(a) == ~(Geq(a[1], 0) \/ Leq(a[1], 0))

\* faulty variant: a NaN branch that returns without unlocking
callbackNaNKeepsLock ==
    /\ cbPc = "locked"
    /\ SpectrumIsNaN(acc)
    /\ cbPc' = "idle"
    /\ UNCHANGED <<unitIsRunning, rio, interrupted, lock, lockFailed, cdVars,
                   sumIdx, pubVars, snapVars, ctlVars, stopped, cycleDone,
                   srcFailed>>
    /\ UNCHANGED cntVars

\* callback, lines 160-164: the spectrum is NaN: unlock and return 0
callbackNaN ==
    /\ cbPc = "locked"
    /\ SpectrumIsNaN(acc)
    /\ lock' \in Unlocked("producer")
    /\ cbPc' = "idle"
    /\ UNCHANGED <<unitIsRunning, rio, interrupted, lockFailed, cdVars, sumIdx,
                   pubVars, snapVars, ctlVars, stopped, cycleDone, srcFailed>>
    /\ UNCHANGED cntVars

\* faulty variant: the mutex is released right after update, before
\* getSummary has brought the fingerprint up to date
callbackUpdateReleasesLock ==
    /\ cbPc = "locked"
    /\ ~SpectrumIsNaN(acc)
    /\ spectrogram' = SpectrogramUpdate(spectrogram, acc)
    /\ pushed' = Append(pushed, acc)
    /\ lock' = "free"
    /\ cbPc' = "summary"
    /\ sumIdx' = 1
    /\ UNCHANGED <<unitIsRunning, rio, interrupted, lockFailed, cdVars,
                   fingerprint, committed, fpStale, snapVars, ctlVars, stopped,
                   cycleDone, srcFailed>>
    /\ UNCHANGED cntVars

\* callback, line 167: spectrogram->update( cd->acc )
callbackUpdate ==
    /\ cbPc = "locked"
    /\ ~SpectrumIsNaN(acc)
    /\ spectrogram' = SpectrogramUpdate(spectrogram, acc)
    /\ pushed' = Append(pushed, acc)
    /\ cbPc' = "summary"
    /\ sumIdx' = 1
    /\ UNCHANGED <<unitIsRunning, rio, interrupted, lock, lockFailed, cdVars,
                   fingerprint, committed, fpStale, snapVars, ctlVars, stopped,
                   cycleDone, srcFailed>>
    /\ UNCHANGED cntVars

\* callback, line 170: getSummary writes the fingerprint bin by bin
callbackSummary ==
    /\ cbPc = "summary"
    /\ \E v \in SummaryChoices(spectrogram[sumIdx]) :
          fingerprint' = [fingerprint EXCEPT ![sumIdx] = v]
    /\ IF sumIdx < fpLength
       THEN sumIdx' = sumIdx + 1 /\ cbPc' = "summary"
       ELSE sumIdx' = 1 /\ cbPc' = "unlock"
    /\ UNCHANGED <<unitIsRunning, rio, interrupted, lock, lockFailed, cdVars,
                   spectrogram, committed, fpStale, pushed, snapVars, ctlVars,
                   stopped, cycleDone, srcFailed>>
    /\ UNCHANGED cntVars

\* faulty variant: the end of a cycle that does not reset the count
callbackUnlockKeepsCount ==
    /\ cbPc = "unlock"
    /\ lock' \in Unlocked("producer")
    /\ acc' = ZeroVec
    /\ startIndex' = startIndex + stepSize
    /\ cbPc' = "loop"
    /\ committed' = fingerprint
    /\ fpStale' = (stopped /\ ctlPc = "idle")
    /\ cycleDone' = TRUE
    /\ UNCHANGED <<unitIsRunning, rio, interrupted, lockFailed, fbIndex,
                   accCount, frameBuffer, nAppended, nWindows, sumIdx,
                   spectrogram, fingerprint, pushed, snapVars, ctlVars,
                   stopped, srcFailed>>
    /\ UNCHANGED cntVars

\* callback, lines 171-177 and the for-increment: unlock, clear the
\* accumulator, go on with the next window
callbackUnlock ==
    /\ cbPc = "unlock"
    /\ lock' \in Unlocked("producer")
    /\ acc' = ZeroVec
    /\ accCount' = 0
    /\ startIndex' = startIndex + stepSize
    /\ cbPc' = "loop"
    /\ committed' = fingerprint
    /\ fpStale' = (stopped /\ ctlPc = "idle")
    /\ cycleDone' = TRUE
    /\ UNCHANGED <<unitIsRunning, rio, interrupted, lockFailed, fbIndex,
                   frameBuffer, nAppended, nWindows, sumIdx, spectrogram,
                   fingerprint, pushed, snapVars, ctlVars, stopped, srcFailed>>
    /\ UNCHANGED cntVars

callback ==
    \/ callbackRenderError
    \/ \E n \in BatchSizes : callbackAppend(n)
    \/ callbackWindow
    \/ callbackReturn
    \/ callbackLock
    \/ callbackNaN
    \/ callbackUpdate
    \/ callbackSummary
    \/ callbackUnlock

\* ---------------------------------------------------------------- consumer
\* faulty variant: getFingerprint that does not look at the running flag
getFingerprintCheckNoFlag ==
    /\ snapPc = "idle"
    /\ nSnapshots < MaxSnapshots
    /\ nSnapshots' = nSnapshots + 1
    /\ outBuf' = SentinelVec
    /\ snapIdx' = 1
    /\ snapStale' = fpStale
    /\ snapAfterFail' = srcFailed
    /\ snapPc' = "lock"
    /\ snapRet' = "none"
    /\ UNCHANGED <<unitIsRunning, rio, interrupted, lock, lockFailed, cdVars,
                   cbPc, sumIdx, pubVars, snapSeen, ctlVars, stopped,
                   cycleDone, srcFailed, nCallbacks, nControl, nSession>>

\* getFingerprint, line 396 and 402: read the running flag; return false
\* when it is not set.  The caller hands in a buffer filled with Sentinel.
getFingerprintCheck ==
    /\ snapPc = "idle"
    /\ nSnapshots < MaxSnapshots
    /\ nSnapshots' = nSnapshots + 1
    /\ outBuf' = SentinelVec
    /\ snapIdx' = 1
    /\ snapStale' = fpStale
    /\ snapAfterFail' = srcFailed
    /\ IF unitIsRunning
       THEN snapPc' = "lock" /\ snapRet' = "none"
       ELSE snapPc' = "idle" /\ snapRet' = "false"
    /\ UNCHANGED <<unitIsRunning, rio, interrupted, lock, lockFailed, cdVars,
                   cbPc, sumIdx, pubVars, snapSeen, ctlVars, stopped,
                   cycleDone, srcFailed>>
    /\ UNCHANGED <<nCallbacks, nControl, nSession>>

\* faulty variant: getFingerprint that copies without waiting for the mutex
getFingerprintLockNoWait ==
    /\ snapPc = "lock"
    /\ snapPc' = "copy"
    /\ snapSeen' = committed
    /\ UNCHANGED <<unitIsRunning, rio, interrupted, lock, lockFailed, cdVars,
                   cbPc, sumIdx, pubVars, snapIdx, outBuf, snapRet, snapStale,
                   snapAfterFail, ctlVars, stopped, cycleDone, srcFailed,
                   cntVars>>

\* getFingerprint, line 397: pthread_mutex_lock( &lock )
getFingerprintLock ==
    /\ snapPc = "lock"
    /\ lock = "free"
    /\ lock' = "consumer"
    /\ lockFailed' = lockFailed \ {"consumer"}
    /\ snapPc' = "copy"
    /\ snapSeen' = committed
    /\ UNCHANGED <<unitIsRunning, rio, interrupted, cdVars, cbPc, sumIdx,
                   pubVars, snapIdx, outBuf, snapRet, snapStale, snapAfterFail,
                   ctlVars, stopped, cycleDone, srcFailed>>
    /\ UNCHANGED cntVars

\* getFingerprint, line 397: pthread_mutex_lock returns an error, which is
\* printed; getFingerprint goes on as if it held the mutex
getFingerprintLockFails ==
    /\ snapPc = "lock"
    /\ lockFailed' = lockFailed \cup {"consumer"}
    /\ snapPc' = "copy"
    /\ snapSeen' = committed
    /\ UNCHANGED <<unitIsRunning, rio, interrupted, lock, cdVars, cbPc, sumIdx,
                   pubVars, snapIdx, outBuf, snapRet, snapStale, snapAfterFail,
                   ctlVars, stopped, cycleDone, srcFailed>>
    /\ UNCHANGED cntVars

\* getFingerprint, line 398: memcpy, one element at a time
getFingerprintCopy ==
    /\ snapPc = "copy"
    /\ outBuf' = [outBuf EXCEPT ![snapIdx] = fingerprint[snapIdx]]
    /\ IF snapIdx < fpLength
       THEN snapIdx' = snapIdx + 1 /\ snapPc' = "copy"
       ELSE snapIdx' = 1 /\ snapPc' = "unlock"
    /\ UNCHANGED <<unitIsRunning, rio, interrupted, lock, lockFailed, cdVars,
                   cbPc, sumIdx, pubVars, snapRet, snapSeen, snapStale,
                   snapAfterFail, ctlVars, stopped, cycleDone, srcFailed>>
    /\ UNCHANGED cntVars

\* getFingerprint, lines 399-400: unlock, return true
getFingerprintUnlock ==
    /\ snapPc = "unlock"
    /\ lock' \in Unlocked("consumer")
    /\ snapPc' = "idle"
    /\ snapRet' = "true"
    /\ snapStale' = (snapStale /\ fpStale)
    /\ UNCHANGED <<unitIsRunning, rio, interrupted, lockFailed, cdVars, cbPc,
                   sumIdx, pubVars, snapIdx, outBuf, snapSeen, snapAfterFail,
                   ctlVars, stopped, cycleDone, srcFailed>>
    /\ UNCHANGED cntVars

getFingerprint ==
    \/ getFingerprintCheck
    \/ getFingerprintLock
    \/ getFingerprintCopy
    \/ getFingerprintUnlock

\* ---------------------------------------------------------------- control
\* faulty variant: startRecording that starts the unit again although the
\* flag is set
startRecordingNoopRestarts ==
    /\ ctlPc = "idle"
    /\ nControl < MaxControlCalls
    /\ nControl' = nControl + 1
    /\ unitIsRunning
    /\ rio' = IF rio = "invalid" THEN rio ELSE "running"
    /\ ctlOp' = "start"
    /\ ctlRet' = "true"
    /\ UNCHANGED <<unitIsRunning, interrupted, lock, lockFailed, cdVars, cbPc,
                   sumIdx, pubVars, snapVars, ctlPc, stopped, cycleDone,
                   srcFailed>>
    /\ UNCHANGED <<nCallbacks, nSnapshots, nSession>>

\* startRecording, line 423 false, line 448: already running, return the flag
startRecordingNoop ==
    /\ ctlPc = "idle"
    /\ nControl < MaxControlCalls
    /\ nControl' = nControl + 1
    /\ unitIsRunning
    /\ ctlOp' = "start"
    /\ ctlRet' = "true"
    /\ UNCHANGED <<unitIsRunning, rio, interrupted, lock, lockFailed, cdVars,
                   cbPc, sumIdx, pubVars, snapVars, ctlPc, stopped, cycleDone,
                   srcFailed>>
    /\ UNCHANGED <<nCallbacks, nSnapshots, nSession>>

\* startRecording, line 424: AudioOutputUnitStart reports an error and
\* XThrowIfError throws out of startRecording
startRecordingStartThrows ==
    /\ ctlPc = "idle"
    /\ nControl < MaxControlCalls
    /\ nControl' = nControl + 1
    /\ ~unitIsRunning
    /\ ctlOp' = "start"
    /\ ctlRet' = "exception"
    /\ UNCHANGED <<unitIsRunning, rio, interrupted, lock, lockFailed, cdVars,
                   cbPc, sumIdx, pubVars, snapVars, ctlPc, stopped, cycleDone,
                   srcFailed>>
    /\ UNCHANGED <<nCallbacks, nSnapshots, nSession>>

\* startRecording, line 424: AudioOutputUnitStart returns noErr; the unit
\* is then running, or (the case line 442 tests for) still is not
startRecordingStart ==
    /\ ctlPc = "idle"
    /\ nControl < MaxControlCalls
    /\ nControl' = nControl + 1
    /\ ~unitIsRunning
    /\ rio # "invalid"
    /\ rio' \in {rio, "running"}
    /\ ctlPc' = "starting"
    /\ ctlOp' = "start"
    /\ ctlRet' = "none"
    /\ UNCHANGED <<unitIsRunning, interrupted, lock, lockFailed, cdVars, cbPc,
                   sumIdx, pubVars, snapVars, stopped, cycleDone, srcFailed>>
    /\ UNCHANGED <<nCallbacks, nSnapshots, nSession>>

\* startRecording, lines 428 and 439: one of the AudioUnitGetProperty calls
\* reports an error and XThrowIfError throws out of startRecording
startRecordingQueryThrows ==
    /\ ctlPc = "starting"
    /\ ctlPc' = "idle"
    /\ ctlRet' = "exception"
    /\ UNCHANGED <<unitIsRunning, rio, interrupted, lock, lockFailed, cdVars,
                   cbPc, sumIdx, pubVars, snapVars, ctlOp, stopped, cycleDone,
                   srcFailed>>
    /\ UNCHANGED cntVars

\* faulty variant: startRecording that sets the flag without testing that
\* the unit runs
startRecordingVerifyNoTest ==
    /\ ctlPc = "starting"
    /\ ctlPc' = "idle"
    /\ unitIsRunning' = TRUE
    /\ ctlRet' = "true"
    /\ stopped' = FALSE
    /\ cycleDone' = FALSE
    /\ srcFailed' = FALSE
    /\ UNCHANGED <<rio, interrupted, lock, lockFailed, cdVars, cbPc, sumIdx,
                   pubVars, snapVars, ctlOp, cntVars>>

\* startRecording, lines 437-448: query kAudioOutputUnitProperty_IsRunning,
\* set the flag when the unit runs, return the flag
startRecordingVerify ==
    /\ ctlPc = "starting"
    /\ ctlPc' = "idle"
    /\ IF rio = "running"
       THEN /\ unitIsRunning' = TRUE
            /\ ctlRet' = "true"
            /\ stopped' = FALSE
            /\ cycleDone' = FALSE
            /\ srcFailed' = FALSE
       ELSE /\ ctlRet' = "false"
            /\ UNCHANGED <<unitIsRunning, stopped, cycleDone, srcFailed>>
    /\ UNCHANGED <<rio, interrupted, lock, lockFailed, cdVars, cbPc, sumIdx,
                   pubVars, snapVars, ctlOp>>
    /\ UNCHANGED cntVars

startRecording ==
    \/ startRecordingNoop
    \/ startRecordingStartThrows
    \/ startRecordingStart
    \/ startRecordingQueryThrows
    \/ startRecordingVerify

\* stopRecording, line 453 false, line 458: not running, return the flag
stopRecordingNoop ==
    /\ ctlPc = "idle"
    /\ nControl < MaxControlCalls
    /\ nControl' = nControl + 1
    /\ ~unitIsRunning
    /\ ctlOp' = "stop"
    /\ ctlRet' = "false"
    /\ UNCHANGED <<unitIsRunning, rio, interrupted, lock, lockFailed, cdVars,
                   cbPc, sumIdx, pubVars, snapVars, ctlPc, stopped, cycleDone,
                   srcFailed>>
    /\ UNCHANGED <<nCallbacks, nSnapshots, nSession>>

\* stopRecording, lines 453-454: running, about to stop the unit
stopRecordingBegin ==
    /\ ctlPc = "idle"
    /\ nControl < MaxControlCalls
    /\ nControl' = nControl + 1
    /\ unitIsRunning
    /\ ctlPc' = "stopping"
    /\ ctlOp' = "stop"
    /\ ctlRet' = "none"
    /\ UNCHANGED <<unitIsRunning, rio, interrupted, lock, lockFailed, cdVars,
                   cbPc, sumIdx, pubVars, snapVars, stopped, cycleDone,
                   srcFailed>>
    /\ UNCHANGED <<nCallbacks, nSnapshots, nSession>>

\* stopRecording, line 455: AudioOutputUnitStop reports an error and
\* XThrowIfError throws out of stopRecording; the flag stays set
stopRecordingThrows ==
    /\ ctlPc = "stopping"
    /\ ctlPc' = "idle"
    /\ ctlRet' = "exception"
    /\ UNCHANGED <<unitIsRunning, rio, interrupted, lock, lockFailed, cdVars,
                   cbPc, sumIdx, pubVars, snapVars, ctlOp, stopped, cycleDone,
                   srcFailed>>
    /\ UNCHANGED cntVars

\* stopRecording, lines 455-458: AudioOutputUnitStop returns noErr, which it
\* does once the render thread is out of the callback; clear the flag
stopRecordingStop ==
    /\ ctlPc = "stopping"
    /\ rio # "invalid"
    /\ cbPc = "idle"
    /\ rio' = "stopped"
    /\ unitIsRunning' = FALSE
    /\ stopped' = TRUE
    /\ ctlPc' = "idle"
    /\ ctlRet' = "false"
    /\ UNCHANGED <<interrupted, lock, lockFailed, cdVars, cbPc, sumIdx,
                   pubVars, snapVars, ctlOp, cycleDone, srcFailed>>
    /\ UNCHANGED cntVars

stopRecording ==
    \/ stopRecordingNoop
    \/ stopRecordingBegin
    \/ stopRecordingThrows
    \/ stopRecordingStop

\* ---------------------------------------------------------------- session
\* rioInterruptionListener, kAudioSessionBeginInterruption: the session is
\* interrupted and the unit stops rendering
rioInterruptionBegin ==
    /\ ~interrupted
    /\ nSession < MaxSessionEvents
    /\ nSession' = nSession + 1
    /\ interrupted' = TRUE
    /\ rio' = IF rio = "running" THEN "stopped" ELSE rio
    /\ srcFailed' = (srcFailed \/ unitIsRunning)
    /\ UNCHANGED <<unitIsRunning, lock, lockFailed, cdVars, cbPc, sumIdx,
                   pubVars, snapVars, ctlVars, stopped, cycleDone>>
    /\ UNCHANGED <<nCallbacks, nSnapshots, nControl>>

\* rioInterruptionListener, kAudioSessionEndInterruption: reactivate the
\* session and AudioOutputUnitStart the unit handed over at line 364, which
\* was read before setupRemoteIO assigned it: the real unit starts or not
rioInterruptionEnd ==
    /\ interrupted
    /\ interrupted' = FALSE
    /\ rio' \in {rio} \cup (IF rio = "invalid" THEN {} ELSE {"running"})
    /\ UNCHANGED <<unitIsRunning, lock, lockFailed, cdVars, cbPc, sumIdx,
                   pubVars, snapVars, ctlVars, stopped, cycleDone, srcFailed>>
    /\ UNCHANGED cntVars

rioInterruptionListener == rioInterruptionBegin \/ rioInterruptionEnd

\* faulty variant: setupRemoteIO that keeps the cursors and the
\* accumulation count of the CallbackData it replaces
setupRemoteIOKeepsCursors ==
    /\ acc' = ZeroVec
    /\ frameBuffer' = NewBuffer
    /\ nAppended' = 0
    /\ UNCHANGED <<fbIndex, startIndex, accCount, nWindows>>

\* setupRemoteIO, lines 274-295: a new CallbackData, empty
setupRemoteIO ==
    /\ fbIndex' = 0
    /\ startIndex' = 0
    /\ acc' = ZeroVec
    /\ accCount' = 0
    /\ frameBuffer' = NewBuffer
    /\ nAppended' = 0
    /\ UNCHANGED nWindows

\* propListener, kAudioSessionProperty_AudioRouteChange.  Disposing the unit
\* returns once the render thread is out of the callback.  Any XThrowIfError
\* ends the handler in its catch block; setupRemoteIO's return value is not
\* looked at.  Outcomes: dispose fails (nothing changes); setupRemoteIO fails
\* before line 274 (no usable unit, old CallbackData); CallbackData is
\* re-created and the new unit ends unusable, not started, or running.
propListener ==
    /\ cbPc = "idle"
    /\ nSession < MaxSessionEvents
    /\ nSession' = nSession + 1
    /\ \/ UNCHANGED <<rio, cdVars>>
       \/ rio' = "invalid" /\ rio # "invalid" /\ UNCHANGED cdVars
       \/ rio # "invalid" /\ rio' \in {"invalid", "stopped", "running"}
             /\ setupRemoteIO
    /\ UNCHANGED <<unitIsRunning, interrupted, lock, lockFailed, cbPc, sumIdx,
                   pubVars, snapVars, ctlVars, stopped, cycleDone, srcFailed>>
    /\ UNCHANGED <<nCallbacks, nSnapshots, nControl>>

Next ==
    \/ callback
    \/ getFingerprint
    \/ startRecording
    \/ stopRecording
    \/ rioInterruptionListener
    \/ propListener

Spec == Init /\ [][Next]_vars

\* The render callback over a run long enough for the frame buffer to be
\* shifted: startRecording and the callback alone.
callbackStream ==
    \/ \E n \in BatchSizes : callbackAppendWithin(n, MaxStreamCallbacks)
    \/ callbackWindow
    \/ callbackReturn
    \/ callbackLock
    \/ callbackNaN
    \/ callbackUpdate
    \/ callbackSummary
    \/ callbackUnlock

NextStream == startRecording \/ callbackStream

SpecStream == Init /\ [][NextStream]_vars

\* The same run with every window's spectrum finite: no cycle ends in the
\* NaN branch.
FiniteSpectra == {s \in SpectrumInputs : \A i \in Bins : ~IsNaN(s[i])}

callbackValid ==
    \/ \E n \in BatchSizes : callbackAppendWithin(n, MaxStreamCallbacks)
    \/ callbackWindowOf(FiniteSpectra)
    \/ callbackReturn
    \/ callbackLock
    \/ callbackUpdate
    \/ callbackSummary
    \/ callbackUnlock

NextValid == startRecording \/ callbackValid

SpecValid == Init /\ [][NextValid]_vars

\* getSummary on its own: the callback is about to call getSummary
\* (line 170) on a history whose windows, of any length up to MaxHistory,
\* hold a run of one dB value followed by a run of another, the lower one
\* (-3 dB) first or last.
HistoryWindows ==
    {[j \in 1..(lows + highs) |->
          IF (j <= lows) = lowFirst THEN 0 - 3 ELSE 0] :
       lows \in 0..MaxHistory, highs \in 0..MaxHistory,
       lowFirst \in BOOLEAN} \ {<<>>}

InitSummary ==
    /\ unitIsRunning = TRUE
    /\ rio = "running"
    /\ interrupted = FALSE
    /\ lock = "producer"
    /\ lockFailed = {}
    /\ fbIndex = 0
    /\ startIndex = 0
    /\ acc = ZeroVec
    /\ accCount = 0
    /\ frameBuffer = NewBuffer
    /\ nAppended = 0
    /\ nWindows = 0
    /\ pushed = <<>>
    /\ cbPc = "summary"
    /\ sumIdx = 1
    /\ \E w \in HistoryWindows :
          /\ Len(w) <= MaxHistory
          /\ spectrogram =
                [i \in Bins |->
                    IF i = 1 THEN w
                    ELSE [j \in 1..Len(w) |-> w[Len(w) + 1 - j]]]
    /\ fingerprint = ZeroVec
    /\ snapPc = "idle"
    /\ snapIdx = 1
    /\ outBuf = SentinelVec
    /\ snapRet = "none"
    /\ ctlPc = "idle"
    /\ ctlOp = "start"
    /\ ctlRet = "true"
    /\ stopped = FALSE
    /\ cycleDone = FALSE
    /\ srcFailed = FALSE
    /\ committed = ZeroVec
    /\ fpStale = FALSE
    /\ snapSeen = ZeroVec
    /\ snapStale = FALSE
    /\ snapAfterFail = FALSE
    /\ nCallbacks = 1
    /\ nSnapshots = 0
    /\ nControl = 1
    /\ nSession = 0

NextSummary == callbackSummary

SpecSummary == InitSummary /\ [][NextSummary]_vars

\* The threads that meet at the fingerprint mutex, scheduled fairly: the
\* render thread and the thread inside getFingerprint keep running, and a
\* thread waiting for the mutex gets it if it is free again and again.
NextLive == startRecording \/ callback \/ getFingerprint

SpecLive ==
    /\ Init
    /\ [][NextLive]_vars
    /\ WF_vars(callback)
    /\ WF_vars(getFingerprint)
    /\ SF_vars(getFingerprintLock)

\* A run in which pthread_mutex_lock can return an error at either site:
\* startRecording, the render callback and getFingerprint.
NextLockFail ==
    \/ callback
    \/ callbackLockFails
    \/ getFingerprint
    \/ getFingerprintLockFails
    \/ startRecording

SpecLockFail == Init /\ [][NextLockFail]_vars

\* ---------------------------------------------------------------- claims

\* C1: a getFingerprint call that returns true hands back exactly the
\* fingerprint of the last completed publish as it stood when the call took
\* the lock, never a mixture of the elements of two publishes.
C1_SnapshotIsOnePublish ==
    snapRet = "true" => outBuf = snapSeen

\* C1 case: the consumer is in the middle of its copy of a published
\* fingerprint while the producer waits to publish the next one.
C1_Witness ==
    /\ snapPc = "copy"
    /\ snapIdx > 1
    /\ cbPc = "lock"
    /\ committed # ZeroVec

\* C2: getFingerprint returns true only when a cycle has ended in a history
\* update since the last successful startRecording.
C2_NoSuccessBeforeFirstCycle ==
    [][(snapPc = "unlock" /\ snapPc' = "idle" /\ snapRet' = "true")
          => cycleDone]_vars

\* C3: a getFingerprint call that finds the running flag false returns false
\* and leaves the caller's buffer as it was, and the buffer of a call that
\* returned false holds none of the fingerprint.
C3_IdleSnapshotFails ==
    /\ [][(nSnapshots' # nSnapshots /\ ~unitIsRunning)
             => (/\ snapRet' = "false"
                 /\ snapPc' = "idle"
                 /\ outBuf' = SentinelVec)]_vars
    /\ [](snapRet = "false" => (outBuf = SentinelVec /\ snapPc = "idle"))

\* C3 case: getFingerprint has returned false after stopRecording.
C3_Witness ==
    /\ snapRet = "false"
    /\ outBuf = SentinelVec
    /\ stopped
    /\ ~unitIsRunning
    /\ ctlOp = "stop"
    /\ ctlRet = "false"

\* C4: the callback appends samples, analyses a window, or updates the
\* history or the fingerprint only in states where the running flag is set.
C4_NoFramesWhileIdle ==
    [][(\/ nCallbacks' # nCallbacks
        \/ accCount' = accCount + 1
        \/ spectrogram' # spectrogram
        \/ fingerprint' # fingerprint) => unitIsRunning]_vars

\* C5: no getFingerprint call returns a fingerprint that was published
\* before the call, after stopRecording had returned and while no
\* startRecording had been entered since.
C5_NoPublishAfterStopObserved ==
    snapRet = "true" => ~snapStale

\* C6: once the source has failed while Running (render error, interruption)
\* every getFingerprint call fails until the next successful startRecording.
C6_FailureLeadsToIdle ==
    snapRet = "true" => ~snapAfterFail

\* C7: startRecording returns true and sets the flag only when the unit,
\* asked after AudioOutputUnitStart, reports that it runs; when it reports
\* that it does not, startRecording returns false and the flag stays clear.
C7_StartOnlyIfSourceRunning ==
    [][/\ (ctlPc = "starting" /\ ctlPc' = "idle" /\ rio = "running")
            => (ctlRet' \in {"true", "exception"})
       /\ (ctlPc = "starting" /\ ctlPc' = "idle" /\ rio # "running")
            => (ctlRet' \in {"false", "exception"} /\ ~unitIsRunning')
       /\ (~unitIsRunning /\ unitIsRunning')
            => (ctlPc = "starting" /\ rio = "running" /\ ctlRet' = "true")]_vars

\* C7 case: startRecording has returned false because the unit did not run.
C7_Witness ==
    /\ ctlOp = "start"
    /\ ctlRet = "false"
    /\ ctlPc = "idle"
    /\ ~unitIsRunning
    /\ rio = "stopped"

\* C8: startRecording and stopRecording end by returning a boolean, never
\* by an exception.
C8_NoExceptionEscapes ==
    ctlRet # "exception"

\* C9: no value of the history and no element of the stored fingerprint is
\* a NaN, whichever bin of an accumulated spectrum the NaN was in.
C9_NaNNeverStored ==
    \A i \in Bins :
        /\ ~IsNaN(fingerprint[i])
        /\ \A k \in 1..Len(spectrogram[i]) : ~IsNaN(spectrogram[i][k])

\* C10: when the validity test finds a NaN the accumulator sum is reset to
\* zero and the count to 0.
C10_NaNResetsAccumulator ==
    [][(cbPc = "locked" /\ SpectrumIsNaN(acc) /\ cbPc' = "idle")
          => (acc' = ZeroVec /\ accCount' = 0)]_vars

\* C11: a thread whose pthread_mutex_lock returned an error leaves the
\* protected data alone: the producer changes neither the history nor the
\* stored fingerprint, getFingerprint copies nothing out, and neither of them
\* unlocks the mutex it did not acquire.
C11_LockFailureLeavesData ==
    [][/\ (/\ "producer" \in lockFailed
           /\ cbPc \in {"locked", "summary", "unlock"})
            => /\ spectrogram' = spectrogram
               /\ fingerprint' = fingerprint
               /\ (cbPc' # cbPc => lock' = lock)
       /\ ("consumer" \in lockFailed /\ snapPc \in {"copy", "unlock"})
            => /\ outBuf' = outBuf
               /\ (snapPc' # snapPc => lock' = lock)]_vars

\* C12: the cursors of the frame buffer satisfy
\* 0 <= startIndex <= fbIndex <= fbLen in every state, and every window the
\* callback analyses lies inside [0, fbIndex).
C12_CursorsInRange ==
    /\ [](0 <= startIndex /\ startIndex <= fbIndex /\ fbIndex <= fbLen)
    /\ [][nWindows' # nWindows
            => (0 <= startIndex /\ startIndex + specRes <= fbIndex)]_vars

\* C13: the shift moves the unconsumed tail of the frame buffer to the front
\* (slot i of [startIndex, fbIndex) holds afterwards what slot i + fbLen/2
\* held before), and every analysed window is specRes consecutive samples of
\* the stream, the w-th window starting w * stepSize samples into it.
C13_WindowsFollowStream ==
    /\ [][(nCallbacks' # nCallbacks /\ fbIndex' < fbIndex)
            => \A i \in startIndex'..(fbIndex - HalfLen - 1) :
                   frameBuffer'[i] = frameBuffer[i + HalfLen]]_vars
    /\ [][nWindows' # nWindows
            => \A k \in 0..(specRes - 1) :
                  /\ startIndex + k \in Slots
                  /\ frameBuffer[startIndex + k]
                        = nWindows * stepSize + k]_vars

\* C14: whenever the render callback is not executing, accCount is in
\* [0, accumulationNum).
C14_CountBelowAccumulationNum ==
    cbPc = "idle" => (0 <= accCount /\ accCount < accumulationNum)

\* C15: every bin's sliding window holds at most historyCount values, and
\* after k updates it holds the last min(k, historyCount) values handed to
\* update, oldest first.
C15_WindowHoldsMostRecent ==
    \A i \in Bins :
        LET k == Len(pushed)
            m == IF k < historyCount THEN k ELSE historyCount
        IN  /\ Len(spectrogram[i]) <= historyCount
            /\ Len(spectrogram[i]) = m
            /\ \A j \in 1..m : spectrogram[i][j] = pushed[k - m + j][i]

\* C15 case: a full window has evicted a value that differs from the one
\* pushed in its place.
C15_Witness ==
    /\ Len(pushed) > historyCount
    /\ pushed[Len(pushed) - historyCount][1] # pushed[Len(pushed)][1]

\* C16: getSummary writes a value for each of the fpLength bins, and the
\* value v of a bin is the nearest-rank 5th percentile of the bin's window
\* of n values: v is one of them, fewer than ceil(0.05*n) of them are below
\* v and at least that many are <= v, so at least 5% of them are <= v and at
\* least 95% are >= v.
C16_SummaryIsFifthPercentile ==
    cbPc = "unlock" =>
        /\ DOMAIN fingerprint = 1..fpLength
        /\ \A i \in Bins :
              LET w == spectrogram[i]
                  n == Len(w)
                  v == fingerprint[i]
                  r == CHOOSE q \in 1..n :
                          100 * q >= 5 * n /\ 100 * (q - 1) < 5 * n
                  below == Cardinality({j \in 1..n : Lt(w[j], v)})
                  upTo == Cardinality({j \in 1..n : Leq(w[j], v)})
                  from == Cardinality({j \in 1..n : Geq(w[j], v)})
              IN  /\ \E j \in 1..n : w[j] = v
                  /\ below < r
                  /\ r <= upTo
                  /\ 100 * upTo >= 5 * n
                  /\ 100 * from >= 95 * n

\* C16 case: getSummary has run on a window of more than twenty values whose
\* lowest value lies below the 5th percentile.
C16_Witness ==
    /\ cbPc = "unlock"
    /\ Len(spectrogram[1]) > 20
    /\ \E j \in 1..Len(spectrogram[1]) : spectrogram[1][j] < fingerprint[1]

\* the producer state of a new CallbackData
ProducerStateEmpty ==
    /\ fbIndex = 0
    /\ startIndex = 0
    /\ acc = ZeroVec
    /\ accCount = 0

C18_StartStopIdempotent ==
    [][(/\ nControl' # nControl
        /\ \/ ctlOp' = "start" /\ unitIsRunning
           \/ ctlOp' = "stop" /\ ~unitIsRunning)
          => /\ ctlPc' = "idle"
             /\ ctlRet' = (IF unitIsRunning THEN "true" ELSE "false")
             /\ UNCHANGED <<unitIsRunning, rio, interrupted, lock, lockFailed,
                            cdVars, cbPc, sumIdx, pubVars, snapVars, stopped,
                            cycleDone, srcFailed>>]_vars

\* C18 case: the first call made on the fingerprinter is stopRecording; it
\* found the flag clear and has returned false.
C18_Witness ==
    /\ nControl = 1
    /\ ctlOp = "stop"
    /\ ctlRet = "false"
    /\ ctlPc = "idle"
    /\ ~unitIsRunning

\* C19: with no NaN cycle, after W analysed windows the history has been
\* updated W div accumulationNum times and accCount is W mod accumulationNum
\* (while a cycle is being published the count is accumulationNum and the
\* update of that cycle is the one in progress); every update takes the sum
\* of exactly accumulationNum windows; and the end of a publish leaves the
\* sum all zero and the count 0.
C19_OneEmissionPerCycle ==
    /\ [](/\ cbPc \in {"idle", "loop"}
             => /\ Len(pushed) = nWindows \div accumulationNum
                /\ accCount = nWindows % accumulationNum
          /\ cbPc \in {"lock", "locked"}
             => /\ Len(pushed) + 1 = nWindows \div accumulationNum
                /\ nWindows % accumulationNum = 0
                /\ accCount = accumulationNum
          /\ cbPc \in {"summary", "unlock"}
             => /\ Len(pushed) = nWindows \div accumulationNum
                /\ nWindows % accumulationNum = 0
                /\ accCount = accumulationNum)
    /\ [][pushed' # pushed => accCount = accumulationNum]_vars
    /\ [][(cbPc = "unlock" /\ cbPc' # "unlock")
            => (acc' = ZeroVec /\ accCount' = 0)]_vars

\* C19 case: two cycles have been published and a window of the third has
\* been analysed, the callback having returned in between.
C19_Witness ==
    /\ cbPc = "idle"
    /\ nWindows = 2 * accumulationNum + 1
    /\ Len(pushed) = 2
    /\ accCount = 1
    /\ acc # ZeroVec

\* C20: the producer holds the fingerprint mutex exactly from taking it at
\* the end of an accumulation cycle to the end of the publish or the NaN
\* discard: never while it analyses windows, never after the callback has
\* returned; and a getFingerprint call waiting for the mutex gets it and
\* returns.
C20_LockOnlyAroundPublish ==
    /\ [](lock = "producer" <=> cbPc \in {"locked", "summary", "unlock"})
    /\ [][(cbPc \in {"locked", "unlock"} /\ cbPc' \in {"idle", "loop"})
            => (lock = "producer" /\ lock' = "free")]_vars
    /\ (snapPc = "lock" ~> (snapPc = "idle" /\ snapRet = "true"))

\* C20 case: getFingerprint waits for the mutex while the producer, inside
\* a publish, holds it.
C20_Witness ==
    /\ snapPc = "lock"
    /\ lock = "producer"
    /\ cbPc = "summary"

\* C21: the callback enters getSummary only from update, holding the mutex
\* all along, so getSummary never works on an empty history; and in every
\* state where the mutex is free the stored fingerprint is all zero if no
\* update has been made, and otherwise is, bin by bin, what getSummary
\* yields for the history as it stands.
C21_FingerprintIsSummary ==
    /\ [][(cbPc # "summary" /\ cbPc' = "summary")
            => /\ Len(pushed') = Len(pushed) + 1
               /\ lock = "producer"
               /\ lock' = "producer"]_vars
    /\ [](cbPc = "summary"
            => /\ lock = "producer"
               /\ \A i \in Bins : Len(spectrogram[i]) >= 1)
    /\ [](lock = "free"
            => IF pushed = <<>>
               THEN fingerprint = ZeroVec
               ELSE \A i \in Bins :
                        fingerprint[i] \in SummaryChoices(spectrogram[i]))

\* C21 case: two cycles have been published, the second changing the
\* fingerprint, and the mutex is free again.
C21_Witness ==
    /\ lock = "free"
    /\ cbPc = "idle"
    /\ Len(pushed) = 2
    /\ pushed[1] # pushed[2]
    /\ fingerprint # ZeroVec

====
